---- MODULE Spec2Model ----
(***************************************************************************)
(* Discrete-event simulation of cars passing through a capacity-limited    *)
(* Covid testing site (src/src/covid_simulation.py).                       *)
(*                                                                         *)
(* The model follows the program: Simulation.__init__ seeds ArrivalEvents  *)
(* into a heapq-ordered event queue, Simulation.run pops the events one by *)
(* one and calls processEvent, and each processEvent logs one record and   *)
(* may push a follow-up event.  The heap is modelled position by position  *)
(* (heappush / heappop with their sift loops), so that the order in which  *)
(* events of equal timestamp are popped is the order CPython produces.     *)
(***************************************************************************)
EXTENDS Integers, Sequences, FiniteSets, TLC

VARIABLES
    pc,                 \* "init" (seeding loop of __init__), "run", "done", "aborted"
    MAX_CARS,           \* Simulation.MAX_CARS, the capacity of the car queue
    MAX_ARRIVAL_TIME,   \* Simulation.MAX_ARRIVAL_TIME, the arrival horizon
    time,               \* local variable `time` of the seeding loop
    id_counter,         \* Simulation._id_counter
    event_queue,        \* Simulation._event_queue, the heap as a list
    car_queue,          \* Simulation._car_queue
    log                 \* the records handed to Simulation.log, in order

vars == <<pc, MAX_CARS, MAX_ARRIVAL_TIME, time, id_counter, event_queue, car_queue, log>>

(***************************************************************************)
(* Bounds of the model.  The program fixes MAX_CARS = 10 and               *)
(* MAX_ARRIVAL_TIME = 7200; the model runs every capacity 1..MaxCapacity   *)
(* with the horizon MaxHorizon, which keeps the number of seeded cars      *)
(* small while cars are still rejected, admitted, and admitted again after *)
(* a departure.                                                            *)
(***************************************************************************)
MaxCapacity == 2
MaxHorizon == 400
MaxReleaseId == 2

(***************************************************************************)
(* The random draws.  random.randint(a, b) returns any integer of a..b;    *)
(* the model enumerates a sample of each range that contains both ends     *)
(* where the state space allows it.                                        *)
(***************************************************************************)
FirstArrivalDraws == {30, 120}      \* random.randint(30, 120), first arrival
StepDraws == {100, 120}             \* random.randint(30, 120), step between arrivals
PersonDraws == {1, 2, 5}            \* random.randint(1, 5)
PreregDraws == {60, 120}            \* random.randint(60, 120)
SecondsPerPerson == 240             \* the 240 of TestingEvent.processEvent

EventTypes == {"ARRIVAL", "PREREG", "TESTING", "DEPARTURE"}

(***************************************************************************)
(* Events.  An event is its car id, timestamp, person count and TYPE; the  *)
(* comparison methods look at the timestamp only.                          *)
(***************************************************************************)
Event(car_id, timestamp, person_count, type) ==
    [car_id |-> car_id, timestamp |-> timestamp,
     person_count |-> person_count, TYPE |-> type]

\* Faulty variant of Event.__lt__: the comparison turned round.
EventLt_Reversed(a, b) == a.timestamp > b.timestamp

EventLt(a, b) == a.timestamp < b.timestamp

(***************************************************************************)
(* heapq on a Python list.  Positions are 0-based as in heapq; the TLA+    *)
(* sequence holds position p at index p + 1.                               *)
(***************************************************************************)
RECURSIVE SiftdownLoop(_, _, _, _)
SiftdownLoop(heap, startpos, pos, newitem) ==
    IF pos > startpos
    THEN LET parentpos == (pos - 1) \div 2
             parent == heap[parentpos + 1]
         IN  IF EventLt(newitem, parent)
             THEN SiftdownLoop([heap EXCEPT ![pos + 1] = parent],
                               startpos, parentpos, newitem)
             ELSE [heap EXCEPT ![pos + 1] = newitem]
    ELSE [heap EXCEPT ![pos + 1] = newitem]

siftdown(heap, startpos, pos) == SiftdownLoop(heap, startpos, pos, heap[pos + 1])

RECURSIVE SiftupLoop(_, _, _, _)
SiftupLoop(heap, startpos, pos, newitem) ==
    LET endpos == Len(heap)
        leftpos == 2 * pos + 1
    IN  IF leftpos < endpos
        THEN LET rightpos == leftpos + 1
                 childpos == IF rightpos < endpos
                                /\ ~EventLt(heap[leftpos + 1], heap[rightpos + 1])
                             THEN rightpos
                             ELSE leftpos
             IN  SiftupLoop([heap EXCEPT ![pos + 1] = heap[childpos + 1]],
                            startpos, childpos, newitem)
        ELSE siftdown([heap EXCEPT ![pos + 1] = newitem], startpos, pos)

siftup(heap, pos) == SiftupLoop(heap, pos, pos, heap[pos + 1])

heappush(heap, item) == siftdown(Append(heap, item), 0, Len(heap))

\* heappop of a non-empty heap: the returned item and the heap left behind
heappop(heap) ==
    LET lastelt == heap[Len(heap)]
        rest == SubSeq(heap, 1, Len(heap) - 1)
    IN  IF rest # <<>>
        THEN [item |-> rest[1], heap |-> siftup([rest EXCEPT ![1] = lastelt], 0)]
        ELSE [item |-> lastelt, heap |-> rest]

add_event(heap, event) == heappush(heap, event)

next_event(heap) == heappop(heap)

(***************************************************************************)
(* The car queue.                                                          *)
(***************************************************************************)
car_count(queue) == Len(queue)

\* Faulty variants of enqueue_car: the comparison off by one in either
\* direction, and the append done before the test.
enqueue_car_gt(queue, car_id, max_cars) ==
    IF Len(queue) > max_cars
    THEN [ok |-> FALSE, car_queue |-> queue]
    ELSE [ok |-> TRUE, car_queue |-> Append(queue, car_id)]

enqueue_car_early(queue, car_id, max_cars) ==
    IF Len(queue) >= max_cars - 1
    THEN [ok |-> FALSE, car_queue |-> queue]
    ELSE [ok |-> TRUE, car_queue |-> Append(queue, car_id)]

enqueue_car_append_first(queue, car_id, max_cars) ==
    IF Len(queue) >= max_cars
    THEN [ok |-> FALSE, car_queue |-> Append(queue, car_id)]
    ELSE [ok |-> TRUE, car_queue |-> Append(queue, car_id)]

\* enqueue_car: the value returned and the car queue afterwards
enqueue_car(queue, car_id, max_cars) ==
    IF Len(queue) >= max_cars
    THEN [ok |-> FALSE, car_queue |-> queue]
    ELSE [ok |-> TRUE, car_queue |-> Append(queue, car_id)]

\* list.remove(x): drops the first occurrence of x
RECURSIVE ListRemove(_, _)
ListRemove(queue, x) ==
    IF queue = <<>> THEN <<>>
    ELSE IF Head(queue) = x THEN Tail(queue)
    ELSE <<Head(queue)>> \o ListRemove(Tail(queue), x)

\* Faulty variant of dequeue_car: an absent id is ignored (list.remove guarded
\* by a membership test), so nothing is raised.
dequeue_car_silent(queue, car_id) ==
    [raised |-> FALSE, car_queue |-> ListRemove(queue, car_id)]

\* Faulty variant of dequeue_car: the car queue treated as first in, first
\* out (pop(0)), whatever car departs.
dequeue_car_fifo(queue, car_id) ==
    IF queue = <<>>
    THEN [raised |-> TRUE, car_queue |-> queue]
    ELSE [raised |-> FALSE, car_queue |-> Tail(queue)]

\* dequeue_car: list.remove raises ValueError when car_id is not in the list
dequeue_car(queue, car_id) ==
    IF \E i \in 1..Len(queue) : queue[i] = car_id
    THEN [raised |-> FALSE, car_queue |-> ListRemove(queue, car_id)]
    ELSE [raised |-> TRUE, car_queue |-> queue]

(***************************************************************************)
(* Logging.  log_self hands (time, car_id, person_count, event_type,       *)
(* cars_in_sys) to Simulation.log, with car_count() read at the call.      *)
(***************************************************************************)
log_self(event, queue) ==
    [time |-> event.timestamp, car_id |-> event.car_id,
     person_count |-> event.person_count, event_type |-> event.TYPE,
     cars_in_sys |-> car_count(queue)]

(***************************************************************************)
(* processEvent of the four event classes.  Each takes the popped event    *)
(* and the simulation's state after the pop and yields the state after the *)
(* handler; `raised` says an exception left the handler.                   *)
(***************************************************************************)
\* Faulty variants of ArrivalEvent.processEvent: the `return` of the rejected
\* branch missing, and log_self moved to the end of the method as in the other
\* three classes (so that the rejected branch returns before it).
ArrivalProcessEvent_NoReturn(event, heap, queue, lg, max_cars) ==
    LET res == enqueue_car(queue, event.car_id, max_cars)
    IN  [event_queue |-> add_event(heap,
             Event(event.car_id, event.timestamp, event.person_count, "PREREG")),
         car_queue |-> res.car_queue,
         log |-> Append(lg, log_self(event, queue)), raised |-> FALSE]

ArrivalProcessEvent_LogAtEnd(event, heap, queue, lg, max_cars) ==
    LET res == enqueue_car(queue, event.car_id, max_cars)
    IN  IF ~res.ok
        THEN [event_queue |-> heap, car_queue |-> res.car_queue,
              log |-> lg, raised |-> FALSE]
        ELSE [event_queue |-> add_event(heap,
                  Event(event.car_id, event.timestamp, event.person_count, "PREREG")),
              car_queue |-> res.car_queue,
              log |-> Append(lg, log_self(event, res.car_queue)), raised |-> FALSE]

ArrivalProcessEvent(event, heap, queue, lg, max_cars) ==
    LET logged == Append(lg, log_self(event, queue))
        res == enqueue_car(queue, event.car_id, max_cars)
    IN  IF ~res.ok
        THEN [event_queue |-> heap, car_queue |-> res.car_queue,
              log |-> logged, raised |-> FALSE]
        ELSE [event_queue |-> add_event(heap,
                  Event(event.car_id, event.timestamp, event.person_count, "PREREG")),
              car_queue |-> res.car_queue, log |-> logged, raised |-> FALSE]

\* Faulty variants of PreregistrationEvent.processEvent: the drawn delay not
\* added to the timestamp, and a DepartureEvent created where the TestingEvent
\* belongs.
PreregistrationProcessEvent_NoDelay(event, heap, queue, lg, r) ==
    [event_queue |-> add_event(heap,
         Event(event.car_id, event.timestamp, event.person_count, "TESTING")),
     car_queue |-> queue,
     log |-> Append(lg, log_self(event, queue)), raised |-> FALSE]

PreregistrationProcessEvent_WrongType(event, heap, queue, lg, r) ==
    LET timestamp == event.timestamp + r
    IN  [event_queue |-> add_event(heap,
             Event(event.car_id, timestamp, event.person_count, "DEPARTURE")),
         car_queue |-> queue,
         log |-> Append(lg, log_self(event, queue)), raised |-> FALSE]

PreregistrationProcessEvent(event, heap, queue, lg, r) ==
    LET timestamp == event.timestamp + r
    IN  [event_queue |-> add_event(heap,
             Event(event.car_id, timestamp, event.person_count, "TESTING")),
         car_queue |-> queue,
         log |-> Append(lg, log_self(event, queue)), raised |-> FALSE]

\* Faulty variants of TestingEvent.processEvent: the delay not multiplied by
\* the person count, and the DepartureEvent never added to the event queue.
TestingProcessEvent_Flat(event, heap, queue, lg) ==
    LET timestamp == event.timestamp + SecondsPerPerson
    IN  [event_queue |-> add_event(heap,
             Event(event.car_id, timestamp, event.person_count, "DEPARTURE")),
         car_queue |-> queue,
         log |-> Append(lg, log_self(event, queue)), raised |-> FALSE]

TestingProcessEvent_NoDeparture(event, heap, queue, lg) ==
    [event_queue |-> heap, car_queue |-> queue,
     log |-> Append(lg, log_self(event, queue)), raised |-> FALSE]

TestingProcessEvent(event, heap, queue, lg) ==
    LET timestamp == event.timestamp + SecondsPerPerson * event.person_count
    IN  [event_queue |-> add_event(heap,
             Event(event.car_id, timestamp, event.person_count, "DEPARTURE")),
         car_queue |-> queue,
         log |-> Append(lg, log_self(event, queue)), raised |-> FALSE]

\* Faulty variant of DepartureEvent.processEvent: log_self called first, as in
\* ArrivalEvent.processEvent.
DepartureProcessEvent_LogFirst(event, heap, queue, lg) ==
    LET res == dequeue_car(queue, event.car_id)
    IN  [event_queue |-> heap, car_queue |-> res.car_queue,
         log |-> Append(lg, log_self(event, queue)), raised |-> res.raised]

DepartureProcessEvent(event, heap, queue, lg) ==
    LET res == dequeue_car(queue, event.car_id)
    IN  IF res.raised
        THEN [event_queue |-> heap, car_queue |-> res.car_queue,
              log |-> lg, raised |-> TRUE]
        ELSE [event_queue |-> heap, car_queue |-> res.car_queue,
              log |-> Append(lg, log_self(event, res.car_queue)), raised |-> FALSE]

(***************************************************************************)
(* The program.                                                            *)
(***************************************************************************)
Init ==
    /\ pc = "init"
    /\ MAX_CARS \in 1..MaxCapacity
    /\ MAX_ARRIVAL_TIME = MaxHorizon
    /\ time \in FirstArrivalDraws
    /\ id_counter = 0
    /\ event_queue = <<>>
    /\ car_queue = <<>>
    /\ log = <<>>

\* Faulty variant of the seeding loop: the clock advanced before the
\* ArrivalEvent is created.
SeedArrival_StepFirst ==
    /\ pc = "init"
    /\ time <= MAX_ARRIVAL_TIME
    /\ \E n \in PersonDraws, step \in StepDraws :
         /\ event_queue' = add_event(event_queue,
                                     Event(id_counter, time + step, n, "ARRIVAL"))
         /\ time' = time + step
    /\ id_counter' = id_counter + 1
    /\ UNCHANGED <<pc, MAX_CARS, MAX_ARRIVAL_TIME, car_queue, log>>

\* one iteration of the seeding loop of __init__
SeedArrival ==
    /\ pc = "init"
    /\ time <= MAX_ARRIVAL_TIME
    /\ \E n \in PersonDraws, step \in StepDraws :
         /\ event_queue' = add_event(event_queue, Event(id_counter, time, n, "ARRIVAL"))
         /\ time' = time + step
    /\ id_counter' = id_counter + 1
    /\ UNCHANGED <<pc, MAX_CARS, MAX_ARRIVAL_TIME, car_queue, log>>

\* the seeding loop ends, __init__ returns and run() is entered
SeedDone ==
    /\ pc = "init"
    /\ time > MAX_ARRIVAL_TIME
    /\ pc' = "run"
    /\ UNCHANGED <<MAX_CARS, MAX_ARRIVAL_TIME, time, id_counter, event_queue, car_queue, log>>

\* the state after one iteration of run()'s loop that ended in `result`
Dispatched(result) ==
    /\ event_queue' = result.event_queue
    /\ car_queue' = result.car_queue
    /\ log' = result.log
    /\ pc' = IF result.raised THEN "aborted" ELSE "run"
    /\ UNCHANGED <<MAX_CARS, MAX_ARRIVAL_TIME, time, id_counter>>

\* the type of the event run() pops next (the root of the heap).  The actions
\* below bind the popped event and the handler's result as values
\* (\E x \in {e}), once per step.
NextType == event_queue[1].TYPE

RunArrival ==
    /\ pc = "run" /\ event_queue # <<>> /\ NextType = "ARRIVAL"
    /\ \E popped \in {next_event(event_queue)} :
         \E result \in {ArrivalProcessEvent(popped.item, popped.heap,
                                             car_queue, log, MAX_CARS)} :
           Dispatched(result)

RunPreregistration ==
    /\ pc = "run" /\ event_queue # <<>> /\ NextType = "PREREG"
    /\ \E popped \in {next_event(event_queue)}, r \in PreregDraws :
         \E result \in {PreregistrationProcessEvent(popped.item, popped.heap,
                                                     car_queue, log, r)} :
           Dispatched(result)

RunTesting ==
    /\ pc = "run" /\ event_queue # <<>> /\ NextType = "TESTING"
    /\ \E popped \in {next_event(event_queue)} :
         \E result \in {TestingProcessEvent(popped.item, popped.heap, car_queue, log)} :
           Dispatched(result)

RunDeparture ==
    /\ pc = "run" /\ event_queue # <<>> /\ NextType = "DEPARTURE"
    /\ \E popped \in {next_event(event_queue)} :
         \E result \in {DepartureProcessEvent(popped.item, popped.heap, car_queue, log)} :
           Dispatched(result)

\* the loop condition of run() finds the event queue empty
RunDone ==
    /\ pc = "run" /\ event_queue = <<>>
    /\ pc' = "done"
    /\ UNCHANGED <<MAX_CARS, MAX_ARRIVAL_TIME, time, id_counter, event_queue, car_queue, log>>

Next ==
    \/ SeedArrival
    \/ SeedDone
    \/ RunArrival
    \/ RunPreregistration
    \/ RunTesting
    \/ RunDeparture
    \/ RunDone

Spec == Init /\ [][Next]_vars

\* run() is one uninterrupted loop: a step that can be taken is taken
FairSpec == Spec /\ WF_vars(Next)

(***************************************************************************)
(* dequeue_car on its own.  In a run of the program a DepartureEvent is    *)
(* only ever created for a car that is in the car queue, so the raising    *)
(* branch of dequeue_car is exercised from states set up directly: any car *)
(* queue without repeated ids, and one pending DepartureEvent for any car. *)
(***************************************************************************)
ReleaseIds == 0..MaxReleaseId

CarQueues(max_cars) ==
    {q \in UNION {[1..n -> ReleaseIds] : n \in 0..max_cars} :
        \A i, j \in 1..Len(q) : q[i] = q[j] => i = j}

InitRelease ==
    /\ pc = "run"
    /\ MAX_CARS \in 1..MaxCapacity
    /\ MAX_ARRIVAL_TIME = MaxHorizon
    /\ time = MaxHorizon + 1
    /\ id_counter = MaxReleaseId + 1
    /\ car_queue \in CarQueues(MAX_CARS)
    /\ \E c \in ReleaseIds, t \in FirstArrivalDraws, r \in PreregDraws, n \in PersonDraws :
         event_queue = <<Event(c, t + r + SecondsPerPerson * n, n, "DEPARTURE")>>
    /\ log = <<>>

NextRelease ==
    \/ RunDeparture
    \/ RunDone

SpecRelease == InitRelease /\ [][NextRelease]_vars

(***************************************************************************)
(* Vocabulary of the properties.                                           *)
(***************************************************************************)
SeededCars == 0..(id_counter - 1)

InCarQueue(c) == \E i \in 1..Len(car_queue) : car_queue[i] = c

\* the positions of the log that hold a record of car c of the given type
Records(c, type) ==
    {i \in 1..Len(log) : log[i].car_id = c /\ log[i].event_type = type}

\* the car was admitted: it is in the car queue, or it has left it again
Admitted(c) == InCarQueue(c) \/ Records(c, "DEPARTURE") # {}

\* the car was rejected: its ARRIVAL was dispatched while the car queue was full
\* (the ARRIVAL record carries the car count read just before enqueue_car)
Rejected(c) == \E i \in Records(c, "ARRIVAL") : log[i].cars_in_sys >= MAX_CARS

Departed(c) == Cardinality(Records(c, "DEPARTURE")) = 1

Pending(c) == \E i \in 1..Len(event_queue) : event_queue[i].car_id = c

\* run() is about to pop and dispatch an event
Dispatching == pc = "run" /\ event_queue # <<>>

RejectingArrival == Dispatching /\ NextType = "ARRIVAL" /\ Len(car_queue) >= MAX_CARS

(***************************************************************************)
(* C1: in every reachable state the car queue holds at most MAX_CARS cars, *)
(* and the cars_in_sys field of every record logged so far is at most      *)
(* MAX_CARS.                                                               *)
(***************************************************************************)
C1_CapacityInvariant ==
    /\ Len(car_queue) <= MAX_CARS
    /\ \A i \in 1..Len(log) : log[i].cars_in_sys <= MAX_CARS

\* the car queue is full and an arrival was logged while it was full
C1_Witness ==
    /\ Len(car_queue) = MAX_CARS
    /\ \E i \in 1..Len(log) : log[i].cars_in_sys = MAX_CARS /\ log[i].event_type = "ARRIVAL"

(***************************************************************************)
(* C2: every admitted car eventually has exactly one DEPARTURE record, and *)
(* never more than one; the DEPARTURE record's time is strictly greater    *)
(* than the time of the car's ARRIVAL record.                              *)
(***************************************************************************)
AllAdmittedDeparted == \A c \in SeededCars : Admitted(c) => Departed(c)

DepartureSound ==
    \A c \in SeededCars :
        /\ Cardinality(Records(c, "DEPARTURE")) <= 1
        /\ \A d \in Records(c, "DEPARTURE") :
             /\ Records(c, "ARRIVAL") # {}
             /\ \A a \in Records(c, "ARRIVAL") : log[d].time > log[a].time

C2_AdmittedDepartsOnce ==
    /\ <>[]AllAdmittedDeparted
    /\ [](\A c \in SeededCars : InCarQueue(c) => Records(c, "DEPARTURE") = {})
    /\ []DepartureSound

\* the run is over, two cars were admitted and have departed
C2_Witness ==
    /\ pc = "done"
    /\ Cardinality({c \in SeededCars : Admitted(c) /\ Departed(c)}) >= 2

(***************************************************************************)
(* C3: a car rejected at its ARRIVAL never gets a PREREG, TESTING or       *)
(* DEPARTURE record, and never has an event pending in the event queue.    *)
(***************************************************************************)
C3_RejectedStaysOut ==
    \A c \in SeededCars :
        Rejected(c) =>
            /\ Records(c, "PREREG") = {}
            /\ Records(c, "TESTING") = {}
            /\ Records(c, "DEPARTURE") = {}
            /\ ~Pending(c)
            /\ ~InCarQueue(c)

\* the run is over and some car was rejected while another one departed
C3_Witness ==
    /\ pc = "done"
    /\ \E c \in SeededCars : Rejected(c)
    /\ \E c \in SeededCars : Departed(c)

(***************************************************************************)
(* C4: the run terminates with an empty event queue; at that point every   *)
(* seeded car was either rejected or has departed; dispatching a DEPARTURE *)
(* or a rejected ARRIVAL adds no event to the event queue, and a car that  *)
(* was rejected or has departed has no event pending.                      *)
(***************************************************************************)
Terminal(c) == Rejected(c) \/ Departed(c)

C4_Terminates ==
    /\ <>(pc = "done")
    /\ [](pc = "done" =>
            /\ event_queue = <<>>
            /\ \A c \in SeededCars : Records(c, "ARRIVAL") # {} /\ Terminal(c))
    /\ [](\A c \in SeededCars : Terminal(c) => ~Pending(c))
    /\ [][(RejectingArrival \/ (Dispatching /\ NextType = "DEPARTURE"))
            => Len(event_queue') = Len(event_queue) - 1]_vars

\* the run is over; a car was rejected, and a car seeded after it was admitted
\* and has departed
C4_Witness ==
    /\ pc = "done"
    /\ event_queue = <<>>
    /\ \E c, d \in SeededCars : c < d /\ Rejected(c) /\ Departed(d)

(***************************************************************************)
(* C5: dispatching an ARRIVAL admits the car (appends its id to the car    *)
(* queue and schedules the follow-up event) exactly when the car queue     *)
(* holds fewer than MAX_CARS cars; otherwise the car queue holds exactly   *)
(* MAX_CARS cars and the car is rejected.  So every rejected car's ARRIVAL *)
(* record shows a full car queue.                                          *)
(***************************************************************************)
C5_AdmitIffBelowCapacity ==
    /\ [][(Dispatching /\ NextType = "ARRIVAL") =>
            IF Len(car_queue) < MAX_CARS
            THEN /\ car_queue' = Append(car_queue, event_queue[1].car_id)
                 /\ Len(event_queue') = Len(event_queue)
                 /\ \E i \in 1..Len(event_queue') :
                      event_queue'[i].car_id = event_queue[1].car_id
            ELSE /\ Len(car_queue) = MAX_CARS
                 /\ car_queue' = car_queue
                 /\ Len(event_queue') = Len(event_queue) - 1]_vars
    /\ [](\A c \in SeededCars :
            (Records(c, "ARRIVAL") # {} /\ ~Admitted(c)) =>
                \A i \in Records(c, "ARRIVAL") : log[i].cars_in_sys = MAX_CARS)

\* a car was admitted although an earlier car had been rejected: the car queue
\* had dropped below MAX_CARS again
C5_Witness ==
    \E c, d \in SeededCars :
        /\ c < d
        /\ Rejected(c)
        /\ InCarQueue(d)

(***************************************************************************)
(* C6: dispatching an ARRIVAL that is rejected leaves the car queue as it  *)
(* was and leaves in the event queue exactly what the pop left there.      *)
(***************************************************************************)
C6_RejectionFrame ==
    [][RejectingArrival =>
         /\ car_queue' = car_queue
         /\ event_queue' = next_event(event_queue).heap]_vars

\* a rejection was dispatched while other events were still pending
C6_Witness ==
    /\ \E c \in SeededCars : Rejected(c)
    /\ Len(event_queue) >= 2

(***************************************************************************)
(* C7: for every departed car with person count n, the PREREG record has   *)
(* the ARRIVAL's time, the TESTING record follows it by a delay in         *)
(* 60..120, and the DEPARTURE record follows the TESTING record by exactly *)
(* 240 * n; so DEPARTURE time - ARRIVAL time = delay + 240 * n.            *)
(***************************************************************************)
C7_DwellTime ==
    \A c \in SeededCars :
        \A d \in Records(c, "DEPARTURE") :
            \E a \in Records(c, "ARRIVAL"), p \in Records(c, "PREREG"),
               t \in Records(c, "TESTING") :
                LET n == log[a].person_count
                    delay == log[t].time - log[p].time
                IN  /\ log[p].time = log[a].time
                    /\ delay \in 60..120
                    /\ log[d].time - log[t].time = 240 * n
                    /\ log[d].time - log[a].time = delay + 240 * n
                    /\ log[d].person_count = n

\* a car with one person and a car with five persons have both departed
C7_Witness ==
    \E c, d \in SeededCars :
        /\ \E i \in Records(c, "DEPARTURE") : log[i].person_count = 1
        /\ \E i \in Records(d, "DEPARTURE") : log[i].person_count = 5

(***************************************************************************)
(* C8: every dispatch appends exactly one record to the log, and the       *)
(* record carries the timestamp, car id, person count and type of the      *)
(* dispatched event; no other step touches the log.                        *)
(***************************************************************************)
C8_OneRecordPerDispatch ==
    [][IF Dispatching
       THEN LET event == next_event(event_queue).item
                rec == log'[Len(log')]
            IN  /\ Len(log') = Len(log) + 1
                /\ SubSeq(log', 1, Len(log)) = log
                /\ rec.time = event.timestamp
                /\ rec.car_id = event.car_id
                /\ rec.person_count = event.person_count
                /\ rec.event_type = event.TYPE
       ELSE log' = log]_vars

\* all four event types were dispatched and logged, and so was a rejected arrival
C8_Witness ==
    /\ \A type \in EventTypes : \E i \in 1..Len(log) : log[i].event_type = type
    /\ \E c \in SeededCars : Rejected(c)

(***************************************************************************)
(* C9: the cars_in_sys field of a record is the length of the car queue    *)
(* after the event's handler has run.  Stated on states: the last record   *)
(* of the log shows the current length of the car queue (the car queue     *)
(* changes only in the step that logs the record).                         *)
(***************************************************************************)
C9_OccupancyAfterMutation ==
    log # <<>> => log[Len(log)].cars_in_sys = Len(car_queue)

(***************************************************************************)
(* C10: dispatching a DEPARTURE for a car that is not in the car queue     *)
(* aborts the run: control leaves run() for good, the car queue is left as *)
(* it was, nothing is logged, and no later step is taken.                  *)
(***************************************************************************)
C10_ReleaseAbsentAborts ==
    /\ [][(Dispatching /\ NextType = "DEPARTURE" /\ ~InCarQueue(event_queue[1].car_id))
            => /\ pc' = "aborted"
               /\ car_queue' = car_queue
               /\ log' = log]_vars
    /\ [][pc = "aborted" => pc' = "aborted" /\ car_queue' = car_queue /\ log' = log]_vars

\* the run was aborted with other cars still in the car queue
C10_Witness ==
    /\ pc = "aborted"
    /\ car_queue # <<>>
    /\ log = <<>>

(***************************************************************************)
(* The scenario of two cars A and B on a site with one slot.  MAX_CARS is  *)
(* 1 and MAX_ARRIVAL_TIME 1000; the first draws are fixed so that car 0    *)
(* (A) arrives at 100 with two persons and car 1 (B) at 150.  The seeding  *)
(* loop goes on to the horizon as it does in the program; the cars after B *)
(* arrive every 120 seconds with one or five persons.                      *)
(***************************************************************************)
ScenarioPersons(c) == IF c = 0 THEN {2} ELSE IF c = 1 THEN PersonDraws ELSE {1, 5}

ScenarioSteps(c) == IF c = 0 THEN {50} ELSE {120}

InitScenario ==
    /\ pc = "init"
    /\ MAX_CARS = 1
    /\ MAX_ARRIVAL_TIME = 1000
    /\ time = 100
    /\ id_counter = 0
    /\ event_queue = <<>>
    /\ car_queue = <<>>
    /\ log = <<>>

\* one iteration of the seeding loop, with the scenario's draws
SeedScenario ==
    /\ pc = "init"
    /\ time <= MAX_ARRIVAL_TIME
    /\ \E n \in ScenarioPersons(id_counter), step \in ScenarioSteps(id_counter) :
         /\ event_queue' = add_event(event_queue, Event(id_counter, time, n, "ARRIVAL"))
         /\ time' = time + step
    /\ id_counter' = id_counter + 1
    /\ UNCHANGED <<pc, MAX_CARS, MAX_ARRIVAL_TIME, car_queue, log>>

NextScenario ==
    \/ SeedScenario
    \/ SeedDone
    \/ RunArrival
    \/ RunPreregistration
    \/ RunTesting
    \/ RunDeparture
    \/ RunDone

SpecScenario == InitScenario /\ [][NextScenario]_vars

(***************************************************************************)
(* C12: in the scenario, A's ARRIVAL (t = 100, two persons) is admitted    *)
(* and takes the car queue from empty to <<A>>; B's ARRIVAL (t = 150) is   *)
(* rejected with the car queue staying <<A>>, and B gets no further event  *)
(* or record; A's PREREG is dispatched at 100 and A's TESTING in 160..220; *)
(* A's DEPARTURE comes 480 seconds after A's TESTING and leaves the car    *)
(* queue empty.                                                            *)
(*                                                                         *)
(* The claim as written places A's PREREG in 160..220 and A's DEPARTURE    *)
(* 480 seconds after A's PREREG: C12_AsWritten.                            *)
(***************************************************************************)
\* the event about to be dispatched is the ARRIVAL of car c
ArrivalOf(c) == Dispatching /\ NextType = "ARRIVAL" /\ event_queue[1].car_id = c

\* what the scenario says of A's admission, B's rejection and A's release
ScenarioAdmission ==
    /\ \A a \in Records(0, "ARRIVAL") :
         /\ log[a].time = 100 /\ log[a].person_count = 2 /\ log[a].cars_in_sys = 0
         /\ Admitted(0)
    /\ \A b \in Records(1, "ARRIVAL") :
         /\ log[b].time = 150 /\ log[b].cars_in_sys = 1
         /\ ~Pending(1)
         /\ \A type \in EventTypes \ {"ARRIVAL"} : Records(1, type) = {}
    /\ ~InCarQueue(1)
    /\ \A d \in Records(0, "DEPARTURE") :
         /\ log[d].cars_in_sys = 0
         /\ log[d].person_count = 2
    /\ pc = "done" =>
         /\ \A type \in EventTypes : Cardinality(Records(0, type)) = 1
         /\ Cardinality(Records(1, "ARRIVAL")) = 1

ScenarioSteps_Admission ==
    /\ ArrivalOf(0) => (car_queue = <<>> /\ car_queue' = <<0>>)
    /\ ArrivalOf(1) =>
         /\ car_queue = <<0>> /\ car_queue' = <<0>>
         /\ Len(event_queue') = Len(event_queue) - 1
    /\ (Dispatching /\ NextType = "DEPARTURE" /\ event_queue[1].car_id = 0) =>
         (car_queue = <<0>> /\ car_queue' = <<>>)

\* the times of A's chain as the code produces them
ScenarioTimes ==
    /\ \A q \in Records(0, "PREREG") : log[q].time = 100
    /\ \A t \in Records(0, "TESTING") : log[t].time \in 160..220
    /\ \A d \in Records(0, "DEPARTURE") :
         \A t \in Records(0, "TESTING") : log[d].time = log[t].time + 480

\* the times of A's chain as the claim is written
ScenarioTimes_AsWritten ==
    /\ \A q \in Records(0, "PREREG") : log[q].time \in 160..220
    /\ \A d \in Records(0, "DEPARTURE") :
         \A q \in Records(0, "PREREG") : log[d].time = log[q].time + 480

C12_Scenario ==
    /\ [](ScenarioAdmission /\ ScenarioTimes)
    /\ [][ScenarioSteps_Admission]_vars

C12_AsWritten == ScenarioAdmission /\ ScenarioTimes_AsWritten

\* the run is over: A has departed, B was rejected, and a later car took the
\* slot that A had left
C12_Witness ==
    /\ pc = "done"
    /\ Departed(0)
    /\ Rejected(1)
    /\ \E c \in SeededCars : c > 1 /\ Departed(c)

(***************************************************************************)
(* Configurations with a capacity or a horizon that is not positive.       *)
(* Simulation.__init__ reads MAX_CARS and MAX_ARRIVAL_TIME as they are, so *)
(* the program runs from such a configuration with the same steps; the     *)
(* configuration (1, MaxHorizon) is kept beside them for comparison.       *)
(***************************************************************************)
InitConfig ==
    /\ pc = "init"
    /\ MAX_CARS \in {-1, 0, 1}
    /\ MAX_ARRIVAL_TIME \in {-1, 0, MaxHorizon}
    /\ time \in FirstArrivalDraws
    /\ id_counter = 0
    /\ event_queue = <<>>
    /\ car_queue = <<>>
    /\ log = <<>>

SpecConfig == InitConfig /\ [][Next]_vars

(***************************************************************************)
(* C13: with a capacity <= 0 or a horizon <= 0 the construction fails      *)
(* before any event is seeded or processed: no id is handed out, nothing   *)
(* enters the event queue, nothing is logged, and the run loop is never    *)
(* entered.  The code has no such check, so this is violated.              *)
(***************************************************************************)
C13_ConfigurationError ==
    (MAX_CARS <= 0 \/ MAX_ARRIVAL_TIME <= 0) =>
        /\ pc = "init"
        /\ id_counter = 0
        /\ event_queue = <<>>
        /\ log = <<>>

(***************************************************************************)
(* C14: events are dispatched in non-decreasing timestamp order, follow-up *)
(* events included: the times of the log never decrease, and no pending    *)
(* event is earlier than the event dispatched last.                        *)
(***************************************************************************)
C14_NonDecreasingDispatch ==
    /\ \A i, j \in 1..Len(log) : i < j => log[i].time <= log[j].time
    /\ log # <<>> =>
         \A k \in 1..Len(event_queue) : event_queue[k].timestamp >= log[Len(log)].time

\* a follow-up event pushed during the drain was dispatched at the very time
\* of a seeded arrival of another car, and later events followed
C14_Witness ==
    \E i, j \in 1..Len(log) :
        /\ log[i].time = log[j].time
        /\ log[i].car_id # log[j].car_id
        /\ log[i].event_type = "DEPARTURE"
        /\ log[j].event_type = "ARRIVAL"
        /\ log[Len(log)].time > log[i].time

(***************************************************************************)
(* C15: seeding creates exactly one ARRIVAL event per id 0..id_counter-1;  *)
(* the first arrival time is in 30..120, consecutive arrival times differ  *)
(* by a step in 30..120, every person count is in 1..5, no arrival time is *)
(* above MAX_ARRIVAL_TIME, and the seeding loop ends (with the clock       *)
(* beyond MAX_ARRIVAL_TIME).                                               *)
(***************************************************************************)
\* the seeded arrivals of car c: pending in the event queue, or logged
PendingArrivals(c) ==
    {k \in 1..Len(event_queue) :
        event_queue[k].car_id = c /\ event_queue[k].TYPE = "ARRIVAL"}

ArrivalTimes(c) ==
    {event_queue[k].timestamp : k \in PendingArrivals(c)}
        \cup {log[i].time : i \in Records(c, "ARRIVAL")}

ArrivalPersons(c) ==
    {event_queue[k].person_count : k \in PendingArrivals(c)}
        \cup {log[i].person_count : i \in Records(c, "ARRIVAL")}

SeedingSound ==
    /\ \A c \in SeededCars :
         /\ Cardinality(PendingArrivals(c)) + Cardinality(Records(c, "ARRIVAL")) = 1
         /\ \A t \in ArrivalTimes(c) :
              /\ t <= MAX_ARRIVAL_TIME
              /\ c = 0 => t \in 30..120
              /\ c > 0 => \A u \in ArrivalTimes(c - 1) : t - u \in 30..120
         /\ \A n \in ArrivalPersons(c) : n \in 1..5
    /\ \A k \in 1..Len(event_queue) : event_queue[k].car_id \in SeededCars
    /\ \A i \in 1..Len(log) : log[i].car_id \in SeededCars
    /\ pc # "init" => time > MAX_ARRIVAL_TIME

C15_Seeding ==
    /\ []SeedingSound
    /\ <>(pc # "init")

\* seeding is over and nothing is dispatched yet: four cars are seeded, the
\* last one less than a step before the horizon
C15_Witness ==
    /\ pc = "run"
    /\ log = <<>>
    /\ id_counter = 4
    /\ \E t \in ArrivalTimes(3) : t + 100 > MAX_ARRIVAL_TIME

(***************************************************************************)
(* C16: the records of a car appear in the order ARRIVAL, PREREG, TESTING, *)
(* DEPARTURE, each at most once, the PREREG at the ARRIVAL's time and all  *)
(* with the same person count; an admitted car has all four when the run   *)
(* is over.                                                                *)
(***************************************************************************)
\* the car's ARRIVAL was dispatched with room left in the car queue
AdmittedByRecord(c) == \E i \in Records(c, "ARRIVAL") : log[i].cars_in_sys < MAX_CARS

\* every record of car c of type `later` is preceded by one of type `earlier`
Precedes(c, earlier, later) ==
    \A j \in Records(c, later) : \E i \in Records(c, earlier) : i < j

C16_LinearChain ==
    \A c \in SeededCars :
        /\ \A type \in EventTypes : Cardinality(Records(c, type)) <= 1
        /\ Precedes(c, "ARRIVAL", "PREREG")
        /\ Precedes(c, "PREREG", "TESTING")
        /\ Precedes(c, "TESTING", "DEPARTURE")
        /\ \A a \in Records(c, "ARRIVAL"), q \in Records(c, "PREREG") :
             log[q].time = log[a].time
        /\ \A i, j \in 1..Len(log) :
             (log[i].car_id = c /\ log[j].car_id = c)
                 => log[i].person_count = log[j].person_count
        /\ (pc = "done" /\ AdmittedByRecord(c)) =>
             \A type \in EventTypes : Cardinality(Records(c, type)) = 1

\* two admitted cars have gone through their whole chains, interleaved
C16_Witness ==
    \E c, d \in SeededCars :
        /\ c # d
        /\ Departed(c) /\ Departed(d)
        /\ \E i \in Records(d, "ARRIVAL"), j \in Records(c, "DEPARTURE") : i < j
        /\ \E i \in Records(c, "ARRIVAL"), j \in Records(d, "DEPARTURE") : i < j

(***************************************************************************)
(* C17: whenever a DEPARTURE is about to be dispatched its car is in the   *)
(* car queue, every pending PREREG, TESTING or DEPARTURE event belongs to  *)
(* a car in the car queue, and the run is never aborted by dequeue_car.    *)
(***************************************************************************)
C17_ReleaseNeverFails ==
    /\ pc # "aborted"
    /\ \A k \in 1..Len(event_queue) :
         event_queue[k].TYPE # "ARRIVAL" => InCarQueue(event_queue[k].car_id)
    /\ \A c \in SeededCars : Records(c, "DEPARTURE") # {} => ~InCarQueue(c)

\* a DEPARTURE is about to be dispatched for the car that entered the car
\* queue last, with another car in front of it
C17_Witness ==
    /\ Dispatching
    /\ NextType = "DEPARTURE"
    /\ Len(car_queue) = 2
    /\ car_queue[2] = event_queue[1].car_id

(***************************************************************************)
(* C18: the car queue holds no id twice, and holds exactly the cars whose  *)
(* ARRIVAL was dispatched with room left (the record shows fewer than      *)
(* MAX_CARS cars) and whose DEPARTURE has not been dispatched.             *)
(***************************************************************************)
Occupants == {car_queue[i] : i \in 1..Len(car_queue)}

C18_OccupantsExact ==
    /\ \A i, j \in 1..Len(car_queue) : car_queue[i] = car_queue[j] => i = j
    /\ Occupants =
         {c \in SeededCars : AdmittedByRecord(c) /\ Records(c, "DEPARTURE") = {}}
    /\ car_count(car_queue) =
         Cardinality({c \in SeededCars :
                         AdmittedByRecord(c) /\ Records(c, "DEPARTURE") = {}})

\* a car admitted later has departed while a car admitted earlier is still in
\* the car queue
C18_Witness ==
    \E c, d \in SeededCars :
        /\ c < d
        /\ InCarQueue(c)
        /\ AdmittedByRecord(d)
        /\ Records(d, "DEPARTURE") # {}

(***************************************************************************)
(* C19: the event queue holds at most one pending event per car, and none  *)
(* for a car that was rejected or has departed.                            *)
(***************************************************************************)
C19_OnePendingPerCar ==
    /\ \A i, j \in 1..Len(event_queue) :
         event_queue[i].car_id = event_queue[j].car_id => i = j
    /\ \A c \in SeededCars :
         (Terminal(c) \/ (Records(c, "ARRIVAL") # {} /\ ~InCarQueue(c))) => ~Pending(c)

\* several events are pending while one car was rejected and one has departed
C19_Witness ==
    /\ Len(event_queue) >= 2
    /\ \E c, d \in SeededCars : Rejected(c) /\ Departed(d)

(***************************************************************************)
(* C20: when the run is over the car queue is empty, and the last          *)
(* DEPARTURE record of the log shows no car in the system.                 *)
(***************************************************************************)
DepartureRecords == {i \in 1..Len(log) : log[i].event_type = "DEPARTURE"}

C20_EmptyAtEnd ==
    pc = "done" =>
        /\ car_queue = <<>>
        /\ \A i \in DepartureRecords :
             (\A j \in DepartureRecords : j <= i) => log[i].cars_in_sys = 0

\* the run is over; at least two cars have departed, one of them leaving
\* another car behind in the car queue
C20_Witness ==
    /\ pc = "done"
    /\ \E i \in DepartureRecords : log[i].cars_in_sys = 1
    /\ \E i \in DepartureRecords : \A j \in DepartureRecords : j <= i
    /\ Cardinality(DepartureRecords) >= 2

====
